---- MODULE Spec2Model ----
(***************************************************************************)
(* Model of the ChessMind game component (components/chess-game.tsx), the  *)
(* commentary route (app/api/analyze-move/route.ts) and the calibration    *)
(* library (lib/stockfish-eval).                                           *)
(*                                                                         *)
(* Four specifications:                                                    *)
(*   Spec     the ChessGame component: handlers, effects, async callbacks  *)
(*   SpecLive the component with the pending makeAIMove calls settled in   *)
(*            the end (weak fairness)                                      *)
(*   SpecMid  the component from the middle of a game, grades on the list  *)
(*   SpecFn   the pure functions of lib/stockfish-eval applied to inputs   *)
(*            drawn from bounded sets                                      *)
(***************************************************************************)
EXTENDS Integers, Sequences, FiniteSets, TLC

(***************************************************************************)
(* Bounds                                                                  *)
(***************************************************************************)
\* longest evaluation list handed to the pure functions
MaxEvals == 5
\* base difficulties 1-BaseSlack .. 10+BaseSlack are tried
BaseSlack == 2
\* streaks -MaxStreak .. MaxStreak are tried
MaxStreak == 3
\* a game is over after MaxPly moves at the latest
MaxPly == 3

\* null, for a value that is otherwise a record
Null == [null |-> TRUE]

\* a MoveEvaluation, reduced to its grade
Evaluation(type) == [type |-> type]

Grades == {"brilliant", "excellent", "good", "inaccuracy", "mistake", "blunder"}

Max(a, b) == IF a >= b THEN a ELSE b
Min(a, b) == IF a <= b THEN a ELSE b

\* Math.round for a non-negative quotient n/d: floor(n/d + 1/2)
RoundDiv(n, d) == (2 * n + d) \div (2 * d)

(***************************************************************************)
(* lib/stockfish-eval                                                      *)
(***************************************************************************)
eloToDifficultyOffByOne(playerElo) ==
  IF playerElo < 500 THEN 1
  ELSE IF playerElo < 700 THEN 2
  ELSE IF playerElo < 900 THEN 3
  ELSE IF playerElo < 1100 THEN 4
  ELSE IF playerElo < 1300 THEN 5
  ELSE IF playerElo < 1500 THEN 6
  ELSE IF playerElo < 1700 THEN 7
  ELSE IF playerElo < 1900 THEN 8
  ELSE IF playerElo < 2100 THEN 9
  ELSE 10

eloToDifficulty(playerElo) ==
  IF playerElo <= 500 THEN 1
  ELSE IF playerElo <= 700 THEN 2
  ELSE IF playerElo <= 900 THEN 3
  ELSE IF playerElo <= 1100 THEN 4
  ELSE IF playerElo <= 1300 THEN 5
  ELSE IF playerElo <= 1500 THEN 6
  ELSE IF playerElo <= 1700 THEN 7
  ELSE IF playerElo <= 1900 THEN 8
  ELSE IF playerElo <= 2100 THEN 9
  ELSE 10

\* the switch of calculateAccuracy
GradeScore(type) ==
  CASE type = "brilliant" -> 100
    [] type = "excellent" -> 95
    [] type = "good" -> 85
    [] type = "inaccuracy" -> 65
    [] type = "mistake" -> 40
    [] type = "blunder" -> 15
    [] OTHER -> 0

RECURSIVE TotalAccuracy(_)
TotalAccuracy(evaluations) ==
  IF evaluations = << >> THEN 0
  ELSE GradeScore(Head(evaluations).type) + TotalAccuracy(Tail(evaluations))

\* the average cut off instead of rounded
calculateAccuracyFloor(evaluations) ==
  IF Len(evaluations) = 0 THEN 100
  ELSE TotalAccuracy(evaluations) \div Len(evaluations)

calculateAccuracy(evaluations) ==
  IF Len(evaluations) = 0 THEN 100
  ELSE RoundDiv(TotalAccuracy(evaluations), Len(evaluations))

\* centipawn thresholds of the grades
STOCKFISH_THRESHOLDS ==
  [BRILLIANT |-> -200, EXCELLENT |-> -50, GOOD |-> 0,
   INACCURACY |-> 50, MISTAKE |-> 150, BLUNDER |-> 300]

\* the thresholds taken as exclusive
getMoveGradeExclusive(centipawnLoss) ==
  IF centipawnLoss < STOCKFISH_THRESHOLDS.BRILLIANT THEN "brilliant"
  ELSE IF centipawnLoss < STOCKFISH_THRESHOLDS.EXCELLENT THEN "excellent"
  ELSE IF centipawnLoss < STOCKFISH_THRESHOLDS.GOOD THEN "good"
  ELSE IF centipawnLoss < STOCKFISH_THRESHOLDS.INACCURACY THEN "inaccuracy"
  ELSE IF centipawnLoss < STOCKFISH_THRESHOLDS.MISTAKE THEN "mistake"
  ELSE "blunder"

\* the two best tiers returned the wrong way round
getMoveGradeSwapped(centipawnLoss) ==
  IF centipawnLoss <= STOCKFISH_THRESHOLDS.BRILLIANT THEN "excellent"
  ELSE IF centipawnLoss <= STOCKFISH_THRESHOLDS.EXCELLENT THEN "brilliant"
  ELSE IF centipawnLoss <= STOCKFISH_THRESHOLDS.GOOD THEN "good"
  ELSE IF centipawnLoss <= STOCKFISH_THRESHOLDS.INACCURACY THEN "inaccuracy"
  ELSE IF centipawnLoss <= STOCKFISH_THRESHOLDS.MISTAKE THEN "mistake"
  ELSE "blunder"

getMoveGrade(centipawnLoss) ==
  IF centipawnLoss <= STOCKFISH_THRESHOLDS.BRILLIANT THEN "brilliant"
  ELSE IF centipawnLoss <= STOCKFISH_THRESHOLDS.EXCELLENT THEN "excellent"
  ELSE IF centipawnLoss <= STOCKFISH_THRESHOLDS.GOOD THEN "good"
  ELSE IF centipawnLoss <= STOCKFISH_THRESHOLDS.INACCURACY THEN "inaccuracy"
  ELSE IF centipawnLoss <= STOCKFISH_THRESHOLDS.MISTAKE THEN "mistake"
  ELSE "blunder"

\* gameEvaluations.filter((e) => e.type === "blunder").length
BlunderCount(evaluations) ==
  Cardinality({i \in 1..Len(evaluations) : evaluations[i].type = "blunder"})

\* the sum of the three adjustments, before the clamp
Adjustment(stats, gameEvaluations) ==
  LET recentAccuracy == calculateAccuracy(gameEvaluations)
      n == Len(gameEvaluations)
      adj1 == IF recentAccuracy > 85 /\ n >= 5 THEN 1
              ELSE IF recentAccuracy < 50 /\ n >= 5 THEN -1
              ELSE 0
      adj2 == IF stats.currentStreak >= 3 THEN adj1 + 1
              ELSE IF stats.currentStreak <= -3 THEN adj1 - 1
              ELSE adj1
      \* blunderRate > 0.2  <=>  5 * blunders > n   (n > 0)
      adj3 == IF n > 0 /\ 5 * BlunderCount(gameEvaluations) > n /\ n >= 5
              THEN adj2 - 1
              ELSE adj2
  IN adj3

getAdaptiveDifficultyNoClamp(baseDifficulty, stats, gameEvaluations) ==
  baseDifficulty + Adjustment(stats, gameEvaluations)

\* the blunder adjustment written as an else-branch of the streak adjustment
getAdaptiveDifficultyElse(baseDifficulty, stats, gameEvaluations) ==
  LET recentAccuracy == calculateAccuracy(gameEvaluations)
      n == Len(gameEvaluations)
      adj1 == IF recentAccuracy > 85 /\ n >= 5 THEN 1
              ELSE IF recentAccuracy < 50 /\ n >= 5 THEN -1
              ELSE 0
      adj2 == IF stats.currentStreak >= 3 THEN adj1 + 1
              ELSE IF stats.currentStreak <= -3 THEN adj1 - 1
              ELSE IF n > 0 /\ 5 * BlunderCount(gameEvaluations) > n /\ n >= 5
                   THEN adj1 - 1
                   ELSE adj1
  IN Max(1, Min(10, baseDifficulty + adj2))

getAdaptiveDifficulty(baseDifficulty, stats, gameEvaluations) ==
  Max(1, Min(10, baseDifficulty + Adjustment(stats, gameEvaluations)))

\* STOCKFISH_LEVELS[level].elo
LevelElo == <<400, 600, 800, 1000, 1200, 1400, 1600, 1800, 2000, 2200>>

\* a level absent from the table taken as level 5
getAIOpponentEloMidLevel(difficulty, adaptiveBonus) ==
  LET baseElo == IF difficulty \in 1..Len(LevelElo) THEN LevelElo[difficulty] ELSE 1200
  IN baseElo + adaptiveBonus

\* STOCKFISH_LEVELS[difficulty]?.elo || 1000, plus the bonus
getAIOpponentElo(difficulty, adaptiveBonus) ==
  LET baseElo == IF difficulty \in 1..Len(LevelElo) THEN LevelElo[difficulty] ELSE 1000
  IN baseElo + adaptiveBonus

\* Math.pow(10, r / 400) for r in 0..399, in units of 1/EloScale (index r + 1)
EloScale == 100000
Pow10Table == <<
    100000, 100577, 101158, 101742, 102329, 102920, 103514, 104112, 104713, 105317,
    105925, 106537, 107152, 107771, 108393, 109018, 109648, 110281, 110917, 111558,
    112202, 112850, 113501, 114156, 114815, 115478, 116145, 116815, 117490, 118168,
    118850, 119536, 120226, 120921, 121619, 122321, 123027, 123737, 124451, 125170,
    125893, 126619, 127350, 128086, 128825, 129569, 130317, 131069, 131826, 132587,
    133352, 134122, 134896, 135675, 136458, 137246, 138038, 138835, 139637, 140443,
    141254, 142069, 142889, 143714, 144544, 145378, 146218, 147062, 147911, 148765,
    149624, 150487, 151356, 152230, 153109, 153993, 154882, 155776, 156675, 157580,
    158489, 159404, 160325, 161250, 162181, 163117, 164059, 165006, 165959, 166917,
    167880, 168850, 169824, 170805, 171791, 172783, 173780, 174783, 175792, 176807,
    177828, 178855, 179887, 180926, 181970, 183021, 184077, 185140, 186209, 187284,
    188365, 189452, 190546, 191646, 192752, 193865, 194984, 196110, 197242, 198381,
    199526, 200678, 201837, 203002, 204174, 205353, 206538, 207730, 208930, 210136,
    211349, 212569, 213796, 215030, 216272, 217520, 218776, 220039, 221309, 222587,
    223872, 225165, 226464, 227772, 229087, 230409, 231739, 233077, 234423, 235776,
    237137, 238506, 239883, 241268, 242661, 244062, 245471, 246888, 248313, 249747,
    251189, 252639, 254097, 255564, 257040, 258523, 260016, 261517, 263027, 264545,
    266073, 267609, 269153, 270707, 272270, 273842, 275423, 277013, 278612, 280221,
    281838, 283465, 285102, 286748, 288403, 290068, 291743, 293427, 295121, 296825,
    298538, 300262, 301995, 303739, 305492, 307256, 309030, 310814, 312608, 314413,
    316228, 318053, 319890, 321736, 323594, 325462, 327341, 329230, 331131, 333043,
    334965, 336899, 338844, 340800, 342768, 344747, 346737, 348739, 350752, 352777,
    354813, 356862, 358922, 360994, 363078, 365174, 367282, 369403, 371535, 373680,
    375837, 378007, 380189, 382384, 384592, 386812, 389045, 391291, 393550, 395822,
    398107, 400405, 402717, 405042, 407380, 409732, 412098, 414477, 416869, 419276,
    421697, 424131, 426580, 429042, 431519, 434010, 436516, 439036, 441570, 444120,
    446684, 449262, 451856, 454465, 457088, 459727, 462381, 465050, 467735, 470435,
    473151, 475883, 478630, 481393, 484172, 486968, 489779, 492606, 495450, 498310,
    501187, 504081, 506991, 509918, 512861, 515822, 518800, 521795, 524807, 527837,
    530884, 533949, 537032, 540132, 543250, 546387, 549541, 552713, 555904, 559114,
    562341, 565588, 568853, 572137, 575440, 578762, 582103, 585464, 588844, 592243,
    595662, 599101, 602560, 606038, 609537, 613056, 616595, 620155, 623735, 627336,
    630957, 634600, 638263, 641948, 645654, 649382, 653131, 656901, 660693, 664508,
    668344, 672202, 676083, 679986, 683912, 687860, 691831, 695825, 699842, 703882,
    707946, 712033, 716143, 720278, 724436, 728618, 732825, 737055, 741310, 745590,
    749894, 754223, 758578, 762957, 767361, 771792, 776247, 780728, 785236, 789769,
    794328, 798914, 803526, 808165, 812831, 817523, 822243, 826990, 831764, 836566,
    841395, 846253, 851138, 856052, 860994, 865964, 870964, 875992, 881049, 886135,
    891251, 896396, 901571, 906776, 912011, 917276, 922571, 927897, 933254, 938642,
    944061, 949511, 954993, 960506, 966051, 971628, 977237, 982879, 988553, 994260 >>

RECURSIVE TenTo(_)
TenTo(q) == IF q = 0 THEN 1 ELSE 10 * TenTo(q - 1)

\* the rating bands closed at their upper end
KFactorInclusive(playerElo) ==
  IF playerElo <= 1000 THEN 40
  ELSE IF playerElo <= 1400 THEN 32
  ELSE IF playerElo <= 2000 THEN 24
  ELSE 16

\* K-factor based on rating
KFactor(playerElo) ==
  IF playerElo < 1000 THEN 40
  ELSE IF playerElo < 1400 THEN 32
  ELSE IF playerElo < 2000 THEN 24
  ELSE 16

\* K = 40 at every rating
calculateEloChangeFlatK(playerElo, opponentElo, result) ==
  LET K == 40
      a2 == IF result = "win" THEN 2 ELSE IF result = "draw" THEN 1 ELSE 0
      d == opponentElo - playerElo
      ad == IF d >= 0 THEN d ELSE 0 - d
      Y == Pow10Table[(ad % 400) + 1] * TenTo(ad \div 400)
      num == IF d >= 0 THEN K * (a2 * (EloScale + Y) - 2 * EloScale)
             ELSE K * (a2 * (EloScale + Y) - 2 * Y)
      den == 2 * (EloScale + Y)
  IN IF ad >= 800
     THEN (IF d > 0 THEN (K * a2) \div 2 ELSE (K * a2) \div 2 - K)
     ELSE (2 * num + den) \div (2 * den)

\* Math.round(K * (actualScore - expectedScore)) in integers.  With
\* y = 10^(|d|/400) for d = opponentElo - playerElo, expectedScore is 1/(1+y)
\* for d >= 0 and y/(1+y) for d < 0; actualScore is a2/2.  From |d| = 800 on
\* K * expectedScore (or K * (1 - expectedScore)) is below 1/2 and rounds away.
calculateEloChange(playerElo, opponentElo, result) ==
  LET K == KFactor(playerElo)
      a2 == IF result = "win" THEN 2 ELSE IF result = "draw" THEN 1 ELSE 0
      d == opponentElo - playerElo
      ad == IF d >= 0 THEN d ELSE 0 - d
      Y == Pow10Table[(ad % 400) + 1] * TenTo(ad \div 400)
      num == IF d >= 0 THEN K * (a2 * (EloScale + Y) - 2 * EloScale)
             ELSE K * (a2 * (EloScale + Y) - 2 * Y)
      den == 2 * (EloScale + Y)
  IN IF ad >= 800
     THEN (IF d > 0 THEN (K * a2) \div 2 ELSE (K * a2) \div 2 - K)
     ELSE (2 * num + den) \div (2 * den)

(***************************************************************************)
(* lib/chess-engine, as the component uses it.  A position is the list of  *)
(* moves applied since createInitialState (its append-only history) in the *)
(* game it belongs to; the side to move alternates with every move; a move *)
(* that mates, stalemates or draws sets the matching flag of the result.   *)
(***************************************************************************)
\* undefined, for a value that is otherwise a record
Undefined == [undefined |-> TRUE]
\* no move, no square
NoMove == "none"
NoSquare == "none"
\* the empty string, among the commentary texts
EmptyText == [by |-> "nobody"]

Moves == {"a", "mate", "draw"}

\* each call returns a new object: game tells the objects of two games apart
createInitialState(game) == [game |-> game, moves |-> << >>]

LastMove(state) == IF state.moves = << >> THEN NoMove ELSE state.moves[Len(state.moves)]

Turn(state) == IF Len(state.moves) % 2 = 0 THEN "w" ELSE "b"
isCheckmate(state) == LastMove(state) = "mate"
\* no move of Moves stalemates: the component treats the flag like isDraw
isStalemate(state) == LastMove(state) = "stale"
isDraw(state) == LastMove(state) = "draw"
IsTerminal(state) == isCheckmate(state) \/ isStalemate(state) \/ isDraw(state)

\* the legal moves of the side to move: none in a terminal position, and
\* move number MaxPly ends the game
EndingMoves == {"mate", "draw"}
LegalMoves(state) ==
  IF IsTerminal(state) THEN {}
  ELSE IF Len(state.moves) >= MaxPly - 1 THEN EndingMoves
  ELSE Moves

\* getValidMoves(state, square): the destinations of the piece on square
getValidMoves(state, square) == IF square = "p" THEN LegalMoves(state) ELSE {}

\* makeMove(state, from, to): the new position, or null for an illegal move
makeMove(state, from, to) ==
  IF from = "p" /\ to \in LegalMoves(state)
  THEN [state EXCEPT !.moves = Append(@, to)]
  ELSE Null

\* moveToAlgebraic(state, move): the SAN text of the move
moveToAlgebraic(state, move) == move

(***************************************************************************)
(* lib/adaptive-ai, as the component uses it.  A PlayerStats carries the   *)
(* rating, the games played and the signed streak; the running accuracy,   *)
(* which only the commentary prompt reads, is not carried.                 *)
(***************************************************************************)
createDefaultStats(initialElo) ==
  [skillRating |-> initialElo, gamesPlayed |-> 0, currentStreak |-> 0]

\* folds the grade into the running accuracy: the fields carried are kept
updateStatsAfterMove(stats, evaluation) == stats

\* applies the rating delta, counts the game, moves the streak
updateStatsAfterGame(stats, result, difficulty) ==
  [skillRating |-> stats.skillRating
                   + calculateEloChange(stats.skillRating, getAIOpponentElo(difficulty, 0), result),
   gamesPlayed |-> stats.gamesPlayed + 1,
   currentStreak |-> IF result = "win" THEN stats.currentStreak + 1
                     ELSE IF result = "loss" THEN stats.currentStreak - 1
                     ELSE stats.currentStreak]

(***************************************************************************)
(* app/api/analyze-move/route.ts                                           *)
(***************************************************************************)
\* what can go wrong while commentary is obtained
Failures == {"none", "fetchFails", "bodyUnreadable", "fenThrows", "modelThrows", "modelNoText"}

\* the text the remote model writes about an evaluation
ModelText(evaluation) == [by |-> "model", evaluation |-> evaluation]

\* the template keyed by evaluation.type
getFallbackAnalysis(evaluation) == [by |-> "fallback", evaluation |-> evaluation]

\* POST: req.json() and gameStateToFEN run outside the try block, so their
\* exceptions leave the handler (status 500, no JSON body); a model answer
\* without text is returned as it is (the analysis key is then absent)
POST(evaluation, failure) ==
  IF failure \in {"bodyUnreadable", "fenThrows"}
  THEN [status |-> 500, analysis |-> Undefined]
  ELSE IF failure = "modelThrows"
  THEN [status |-> 200, analysis |-> getFallbackAnalysis(evaluation)]
  ELSE IF failure = "modelNoText"
  THEN [status |-> 200, analysis |-> Undefined]
  ELSE [status |-> 200, analysis |-> ModelText(evaluation)]

(***************************************************************************)
(* components/chess-game.tsx: the ChessGame component                      *)
(***************************************************************************)
\* bounds of the component model
\* handleStartGame calls at most
MaxGames == 2
\* moves the player makes in a session at most
MaxGraded == 1
\* commentary requests in flight at most
MaxRequests == 1
\* gamesPlayed at most
MaxGamesPlayed == 2

VARIABLES
  fnCall, fnRet,     \* SpecFn: the call drawn and what it returned
  storage,            \* localStorage item "chessAI_playerStats"
  mounted,            \* the mount effects have run
  crashed,            \* a render threw: the component is gone
  gameNo,             \* games started so far
  graded,             \* moves the player has made so far
  gameState, gameHistory, historyIndex, selectedSquare, validMoves,
  playerStats, isThinking, moveNotations, currentEvaluation, gameEvaluations,
  aiAnalysis, isAnalyzing, gameStarted, playerColor, currentDifficulty,
  aiMoveInProgress,   \* the ref aiMoveInProgress.current
  aiJobs,             \* makeAIMove calls that have not finished, oldest first
  analysisRequests,   \* requestAIAnalysis calls awaiting their response
  endEffectDue,       \* the game-end effect is due to run again
  endUpdates,         \* updateStatsAfterGame applications since the last event
  lastEvent           \* the event handled last: an undo with the index and the
                      \* position it left, a redo with the event before it

uiVars == <<gameState, gameHistory, historyIndex, selectedSquare, validMoves,
            playerStats, isThinking, moveNotations, currentEvaluation, gameEvaluations,
            aiAnalysis, isAnalyzing, gameStarted, playerColor, currentDifficulty>>

gameVars == <<storage, mounted, crashed, gameNo, graded, uiVars, aiMoveInProgress, aiJobs,
              analysisRequests, endEffectDue, endUpdates, lastEvent>>

\* the contents localStorage can hold for the item
NoItem == [text |-> "none"]
Garbage == [text |-> "garbage"]
JSONstringify(value) == [text |-> "json", value |-> value]

\* JSON.parse: the value, or an exception for text that is no JSON
JSONparse(item) ==
  IF item.text = "json" THEN [threw |-> FALSE, value |-> item.value]
  ELSE [threw |-> TRUE]

\* records found in storage at session start
SavedStats == {[skillRating |-> 1200, gamesPlayed |-> 1, currentStreak |-> 3]}
\* ratings the setup dialog hands to handleStartGame
InitialElos == {1000}
\* grades evaluatePlayerMove hands out
PlayedGrades == {"excellent", "blunder"}

\* the React state of the current render, as one record
Cur ==
  [gameState |-> gameState, gameHistory |-> gameHistory, historyIndex |-> historyIndex,
   selectedSquare |-> selectedSquare, validMoves |-> validMoves,
   playerStats |-> playerStats, isThinking |-> isThinking,
   moveNotations |-> moveNotations, currentEvaluation |-> currentEvaluation,
   gameEvaluations |-> gameEvaluations, aiAnalysis |-> aiAnalysis,
   isAnalyzing |-> isAnalyzing, gameStarted |-> gameStarted,
   playerColor |-> playerColor, currentDifficulty |-> currentDifficulty]

\* array[i] with JavaScript's 0-based index
At(array, i) == IF i \in 0..(Len(array) - 1) THEN array[i + 1] ELSE Undefined

\* array.slice(0, end)
SliceTo(array, end) == SubSeq(array, 1, Min(Max(end, 0), Len(array)))

\* the stats-load effect without its try/catch: the raw text becomes the stats
LoadStatsUnchecked(saved, stats) ==
  IF saved = NoItem THEN stats
  ELSE IF JSONparse(saved).threw THEN saved
  ELSE JSONparse(saved).value

\* the stats-load effect: the stats after it, given the stored item
LoadStats(saved, stats) ==
  IF saved = NoItem THEN stats
  ELSE IF JSONparse(saved).threw THEN Null
  ELSE JSONparse(saved).value

\* the stats-persist effect: the stored item after it
PersistStats(stats, item) == IF stats # Null THEN JSONstringify(stats) ELSE item

\* stats.gamesPlayed, 0 when there is none
GamesPlayed(stats) == IF "gamesPlayed" \in DOMAIN stats THEN stats.gamesPlayed ELSE 0

\* the effect without its guard on the end of the game
AIEffectStartsAtEnd(nx, inProgress) ==
  /\ nx.gameStarted /\ nx.playerStats # Null
  /\ Turn(nx.gameState) # nx.playerColor
  /\ ~inProgress

\* the guards of the makeAIMove effect
AIEffectStarts(nx, inProgress) ==
  /\ nx.gameStarted /\ nx.playerStats # Null
  /\ Turn(nx.gameState) # nx.playerColor
  /\ ~IsTerminal(nx.gameState)
  /\ ~inProgress

\* the closure of one makeAIMove call
AIJob(nx) ==
  [gameState |-> nx.gameState, historyIndex |-> nx.historyIndex,
   currentDifficulty |-> nx.currentDifficulty]

\* the result the game-end effect computes
GameResult(nx) ==
  IF isCheckmate(nx.gameState)
  THEN (IF Turn(nx.gameState) = nx.playerColor THEN "loss" ELSE "win")
  ELSE "draw"

\* the guards of the game-end effect
EndEffectUpdates(nx) == nx.playerStats # Null /\ IsTerminal(nx.gameState)

\* the values the game-end effect depends on, besides playerStats
EndDeps(nx) ==
  <<isCheckmate(nx.gameState), isStalemate(nx.gameState), isDraw(nx.gameState),
    Turn(nx.gameState), nx.playerColor, nx.currentDifficulty>>

\* the values the makeAIMove effect depends on, besides playerStats
AIDeps(nx) ==
  <<nx.gameState, nx.gameStarted, nx.playerColor, nx.currentDifficulty, nx.historyIndex>>

(* The render that follows a handler and the effects that follow the render.
   nx is the React state the handler's setState calls produce, inProgress and
   jobs the ref and the pending makeAIMove calls it leaves; newState / newStats
   tell that gameState / playerStats was set to a new object. *)
Commit(nx, inProgress, jobs, newState, newStats, event) ==
  LET aiRuns == newState \/ newStats \/ AIDeps(nx) # AIDeps(Cur)
      endRuns == newStats \/ EndDeps(nx) # EndDeps(Cur)
      starts == aiRuns /\ AIEffectStarts(nx, inProgress)
      updates == endRuns /\ EndEffectUpdates(nx)
      statsAfter == IF updates
                    THEN updateStatsAfterGame(nx.playerStats, GameResult(nx), nx.currentDifficulty)
                    ELSE nx.playerStats
  IN IF nx.gameState = Undefined
     THEN /\ crashed' = TRUE
          /\ UNCHANGED <<fnCall, fnRet>>
          /\ lastEvent' = event
          /\ gameState' = nx.gameState
          /\ historyIndex' = nx.historyIndex
          /\ moveNotations' = nx.moveNotations
          /\ UNCHANGED <<storage, gameHistory, selectedSquare, validMoves, playerStats,
                         isThinking, currentEvaluation, gameEvaluations, aiAnalysis,
                         isAnalyzing, gameStarted, playerColor, currentDifficulty,
                         aiMoveInProgress, aiJobs, endEffectDue, endUpdates>>
     ELSE /\ GamesPlayed(statsAfter) <= MaxGamesPlayed
          /\ UNCHANGED <<fnCall, fnRet>>
          /\ crashed' = FALSE
          /\ gameState' = nx.gameState
          /\ gameHistory' = nx.gameHistory
          /\ historyIndex' = nx.historyIndex
          /\ selectedSquare' = nx.selectedSquare
          /\ validMoves' = nx.validMoves
          /\ playerStats' = statsAfter
          /\ isThinking' = (starts \/ nx.isThinking)
          /\ moveNotations' = nx.moveNotations
          /\ currentEvaluation' = nx.currentEvaluation
          /\ gameEvaluations' = nx.gameEvaluations
          /\ aiAnalysis' = nx.aiAnalysis
          /\ isAnalyzing' = nx.isAnalyzing
          /\ gameStarted' = nx.gameStarted
          /\ playerColor' = nx.playerColor
          /\ currentDifficulty' = nx.currentDifficulty
          /\ aiMoveInProgress' = (starts \/ inProgress)
          /\ aiJobs' = IF starts THEN Append(jobs, AIJob(nx)) ELSE jobs
          /\ storage' = PersistStats(statsAfter, storage)
          /\ endEffectDue' = (updates \/ (endEffectDue /\ EndEffectUpdates(nx)))
          /\ endUpdates' = IF updates THEN 1 ELSE 0
          /\ lastEvent' = event

\* the component as constructed, before its first effects
GameInit ==
  /\ storage \in {NoItem, Garbage} \cup {JSONstringify(st) : st \in SavedStats}
  /\ mounted = FALSE
  /\ crashed = FALSE
  /\ gameNo = 0
  /\ graded = 0
  /\ gameState = createInitialState(0)
  /\ gameHistory = <<createInitialState(0)>>
  /\ historyIndex = 0
  /\ selectedSquare = NoSquare
  /\ validMoves = {}
  /\ playerStats = Null
  /\ isThinking = FALSE
  /\ moveNotations = << >>
  /\ currentEvaluation = Null
  /\ gameEvaluations = << >>
  /\ aiAnalysis = EmptyText
  /\ isAnalyzing = FALSE
  /\ gameStarted = FALSE
  /\ playerColor = "w"
  /\ currentDifficulty = 5
  /\ aiMoveInProgress = FALSE
  /\ aiJobs = << >>
  /\ analysisRequests = << >>
  /\ endEffectDue = FALSE
  /\ endUpdates = 0
  /\ lastEvent = [type |-> "init"]

\* no library call is tried in Spec
NoCall == [fn |-> "none"]
NotReturned == [returned |-> FALSE]

Init ==
  /\ GameInit
  /\ fnCall = NoCall
  /\ fnRet = NotReturned

\* the effects of the first render: the stored stats are loaded
Mount ==
  /\ ~mounted /\ ~crashed
  /\ mounted' = TRUE
  /\ Commit([Cur EXCEPT !.playerStats = LoadStats(storage, playerStats)],
            aiMoveInProgress, aiJobs, FALSE, storage # NoItem, [type |-> "mount"])
  /\ UNCHANGED <<gameNo, graded, analysisRequests>>

handleStartGame(color, initialElo) ==
  /\ mounted /\ ~crashed
  /\ gameNo < MaxGames
  /\ LET stats == IF playerStats # Null THEN playerStats ELSE createDefaultStats(initialElo)
         initialState == createInitialState(gameNo + 1)
         nx == [Cur EXCEPT !.playerStats = stats,
                           !.playerColor = color,
                           !.currentDifficulty = eloToDifficulty(stats.skillRating),
                           !.gameState = initialState,
                           !.gameHistory = <<initialState>>,
                           !.historyIndex = 0,
                           !.selectedSquare = NoSquare,
                           !.validMoves = {},
                           !.moveNotations = << >>,
                           !.currentEvaluation = Null,
                           !.gameEvaluations = << >>,
                           !.aiAnalysis = EmptyText,
                           !.gameStarted = TRUE]
     IN Commit(nx, FALSE, aiJobs, TRUE, playerStats = Null,
               [type |-> "start", initialElo |-> initialElo])
  /\ gameNo' = gameNo + 1
  /\ UNCHANGED <<mounted, graded, analysisRequests>>

handleUndo ==
  /\ mounted /\ ~crashed
  /\ LET newIndex == Max(0, historyIndex - 2)
         nx == IF historyIndex > 0
               THEN [Cur EXCEPT !.historyIndex = newIndex,
                                !.gameState = At(gameHistory, newIndex),
                                !.moveNotations = SliceTo(moveNotations, newIndex),
                                !.selectedSquare = NoSquare,
                                !.validMoves = {}]
               ELSE Cur
     IN Commit(nx, aiMoveInProgress, aiJobs, FALSE, FALSE,
               IF historyIndex > 0
               THEN [type |-> "undo", historyIndex |-> historyIndex, gameState |-> gameState]
               ELSE lastEvent)
  /\ UNCHANGED <<mounted, gameNo, graded, analysisRequests>>

handleRedo ==
  /\ mounted /\ ~crashed
  /\ LET newIndex == Min(Len(gameHistory) - 1, historyIndex + 2)
         nx == IF historyIndex < Len(gameHistory) - 1
               THEN [Cur EXCEPT !.historyIndex = newIndex,
                                !.gameState = At(gameHistory, newIndex)]
               ELSE Cur
     IN Commit(nx, aiMoveInProgress, aiJobs, FALSE, FALSE,
               IF historyIndex < Len(gameHistory) - 1
               THEN [type |-> "redo", after |-> lastEvent]
               ELSE lastEvent)
  /\ UNCHANGED <<mounted, gameNo, graded, analysisRequests>>

\* the early returns without the one on isThinking
ClickIgnoredUnlessThinking ==
  \/ ~gameStarted \/ playerStats = Null
  \/ Turn(gameState) # playerColor
  \/ IsTerminal(gameState)

\* the early returns of handleSquareClick
ClickIgnored ==
  \/ ~gameStarted \/ playerStats = Null
  \/ Turn(gameState) # playerColor
  \/ isThinking
  \/ IsTerminal(gameState)

\* a click that applies no move: ignored, or the selection is set or cleared
ClickSelects(square) ==
  /\ mounted /\ ~crashed
  /\ \/ ClickIgnored
     \/ selectedSquare = NoSquare
     \/ square = "p"
     \/ square \notin validMoves
     \/ makeMove(gameState, selectedSquare, square) = Null
  /\ LET nx == IF ClickIgnored THEN Cur
               ELSE IF square = "p"
               THEN [Cur EXCEPT !.selectedSquare = square,
                                !.validMoves = getValidMoves(gameState, square)]
               ELSE IF selectedSquare # NoSquare
               THEN [Cur EXCEPT !.selectedSquare = NoSquare, !.validMoves = {}]
               ELSE Cur
     IN Commit(nx, aiMoveInProgress, aiJobs, FALSE, FALSE,
               IF ClickIgnored THEN lastEvent ELSE [type |-> "click", moved |-> FALSE])
  /\ UNCHANGED <<mounted, gameNo, graded, analysisRequests>>

\* requestAIAnalysis returns at once for these grades
NoCommentary(evaluation) == evaluation.type = "good" \/ evaluation.type = "excellent"

\* a click on a valid destination: the move is applied and graded `type`
ClickMoves(square, type) ==
  /\ mounted /\ ~crashed
  /\ ~ClickIgnored
  /\ selectedSquare # NoSquare
  /\ square # "p"
  /\ square \in validMoves
  /\ makeMove(gameState, selectedSquare, square) # Null
  /\ graded < MaxGraded
  /\ LET stateBefore == gameState
         newState == makeMove(gameState, selectedSquare, square)
         evaluation == Evaluation(type)
         asks == ~NoCommentary(evaluation)
         notation == moveToAlgebraic(stateBefore, LastMove(newState))
         newDifficulty == getAdaptiveDifficulty(eloToDifficulty(playerStats.skillRating),
                                                playerStats, gameEvaluations)
         nx == [Cur EXCEPT !.currentEvaluation = evaluation,
                           !.gameEvaluations = Append(@, evaluation),
                           !.playerStats = updateStatsAfterMove(@, evaluation),
                           !.isAnalyzing = IF asks THEN TRUE ELSE @,
                           !.aiAnalysis = IF asks THEN @ ELSE EmptyText,
                           !.gameState = newState,
                           !.gameHistory = Append(SliceTo(@, historyIndex + 1), newState),
                           !.historyIndex = @ + 1,
                           !.moveNotations = Append(@, notation),
                           !.currentDifficulty = newDifficulty,
                           !.selectedSquare = NoSquare,
                           !.validMoves = {}]
     IN /\ asks => Len(analysisRequests) < MaxRequests
        /\ analysisRequests' = IF asks
                               THEN Append(analysisRequests, [evaluation |-> evaluation, game |-> gameNo])
                               ELSE analysisRequests
        /\ Commit(nx, aiMoveInProgress, aiJobs, TRUE, TRUE,
                  [type |-> "click", moved |-> TRUE])
  /\ graded' = graded + 1
  /\ UNCHANGED <<mounted, gameNo>>

handleSquareClick(square) ==
  \/ ClickSelects(square)
  \/ \E type \in PlayedGrades : ClickMoves(square, type)

\* seq without its i-th element
RemoveAt(seq, i) == SubSeq(seq, 1, i - 1) \o SubSeq(seq, i + 1, Len(seq))

\* the call without the reset of the ref in its finally block
makeAIMoveKeepsRef(i, aiMove) ==
  /\ ~crashed
  /\ i \in 1..Len(aiJobs)
  /\ aiMove.to \in LegalMoves(aiJobs[i].gameState)
  /\ LET job == aiJobs[i]
         newState == makeMove(job.gameState, aiMove.from, aiMove.to)
         notation == moveToAlgebraic(job.gameState, LastMove(newState))
         nx == IF newState # Null
               THEN [Cur EXCEPT !.gameState = newState,
                                !.gameHistory = Append(SliceTo(@, job.historyIndex + 1), newState),
                                !.historyIndex = @ + 1,
                                !.moveNotations = Append(@, notation),
                                !.isThinking = FALSE]
               ELSE [Cur EXCEPT !.isThinking = FALSE]
     IN Commit(nx, TRUE, RemoveAt(aiJobs, i), newState # Null, FALSE,
               [type |-> "aiMove"])
  /\ UNCHANGED <<mounted, gameNo, graded, analysisRequests>>

\* the i-th pending makeAIMove call gets aiMove from getAIMoveAsync and finishes
makeAIMove(i, aiMove) ==
  /\ ~crashed
  /\ i \in 1..Len(aiJobs)
  /\ aiMove.to \in LegalMoves(aiJobs[i].gameState)
  /\ LET job == aiJobs[i]
         newState == makeMove(job.gameState, aiMove.from, aiMove.to)
         notation == moveToAlgebraic(job.gameState, LastMove(newState))
         nx == IF newState # Null
               THEN [Cur EXCEPT !.gameState = newState,
                                !.gameHistory = Append(SliceTo(@, job.historyIndex + 1), newState),
                                !.historyIndex = @ + 1,
                                !.moveNotations = Append(@, notation),
                                !.isThinking = FALSE]
               ELSE [Cur EXCEPT !.isThinking = FALSE]
     IN Commit(nx, FALSE, RemoveAt(aiJobs, i), newState # Null, FALSE,
               [type |-> "aiMove"])
  /\ UNCHANGED <<mounted, gameNo, graded, analysisRequests>>

\* what requestAIAnalysis leaves in aiAnalysis when its request ends
AnalysisAfter(evaluation, failure, analysis) ==
  LET response == POST(evaluation, failure)
  IN IF failure = "fetchFails" THEN analysis          \* fetch rejects: caught, logged
     ELSE IF response.status # 200 THEN analysis       \* response.json() throws: caught
     ELSE response.analysis                            \* setAIAnalysis(data.analysis)

\* the i-th pending commentary request ends
requestAIAnalysis(i, failure) ==
  /\ ~crashed
  /\ i \in 1..Len(analysisRequests)
  /\ LET evaluation == analysisRequests[i].evaluation
         nx == [Cur EXCEPT !.aiAnalysis = AnalysisAfter(evaluation, failure, @),
                           !.isAnalyzing = FALSE]
     IN Commit(nx, aiMoveInProgress, aiJobs, FALSE, FALSE,
               [type |-> "analysis"])
  /\ analysisRequests' = RemoveAt(analysisRequests, i)
  /\ UNCHANGED <<mounted, gameNo, graded>>

\* the game-end effect runs again after its own setPlayerStats
GameEndEffect ==
  /\ ~crashed
  /\ endEffectDue
  /\ playerStats.gamesPlayed < MaxGamesPlayed
  /\ playerStats' = updateStatsAfterGame(playerStats, GameResult(Cur), currentDifficulty)
  /\ storage' = PersistStats(playerStats', storage)
  /\ endUpdates' = endUpdates + 1
  /\ lastEvent' = [type |-> "endEffect"]
  /\ UNCHANGED <<mounted, crashed, gameNo, graded, gameState, gameHistory, historyIndex,
                 selectedSquare, validMoves, isThinking, moveNotations, currentEvaluation,
                 gameEvaluations, aiAnalysis, isAnalyzing, gameStarted, playerColor,
                 currentDifficulty, aiMoveInProgress, aiJobs, analysisRequests, endEffectDue,
                 fnCall, fnRet>>

Squares == {"p"} \cup Moves

Next ==
  \/ Mount
  \/ \E color \in {"w", "b"}, initialElo \in InitialElos : handleStartGame(color, initialElo)
  \/ handleUndo
  \/ handleRedo
  \/ \E square \in Squares : handleSquareClick(square)
  \/ \E i \in 1..MaxGames, m \in Moves : makeAIMove(i, [from |-> "p", to |-> m])
  \/ \E i \in 1..MaxRequests, failure \in Failures : requestAIAnalysis(i, failure)
  \/ GameEndEffect

vars == <<gameVars, fnCall, fnRet>>

Spec == Init /\ [][Next]_vars

(***************************************************************************)
(* Claims about the component (checked under Spec)                         *)
(***************************************************************************)
AIMoves == {[from |-> "p", to |-> m] : m \in Moves}

\* the per-game state a makeAIMove result is written to
boardVars == <<gameState, gameHistory, historyIndex, moveNotations>>

\* C1: a move computed for position P is applied only if P is still the
\* current gameState when the result arrives; a result computed for a position
\* that undo, redo or a new game has replaced is never applied.
C1_StaleResultDiscarded ==
  [][\A i \in 1..MaxGames, aiMove \in AIMoves :
       (makeAIMove(i, aiMove) /\ aiJobs[i].gameState # gameState)
         => UNCHANGED boardVars]_vars

\* C2: at every moment at most one makeAIMove / getAIMoveAsync invocation is
\* outstanding.
C2_OneInvocationOutstanding == Len(aiJobs) <= 1

\* C3: updateStatsAfterGame is applied exactly once per finished game: after
\* the update that follows the game's end no further update happens without a
\* new event.
C3_OneUpdatePerGame == endUpdates <= 1

\* C4: every failure while commentary is obtained ends with the fallback text
\* keyed by the evaluation's grade delivered as the analysis.
C4_FailureGivesFallback ==
  [][\A i \in 1..MaxRequests, failure \in Failures \ {"none"} :
       requestAIAnalysis(i, failure)
         => aiAnalysis' = getFallbackAnalysis(analysisRequests[i].evaluation)]_vars

IsStats(stats) == DOMAIN stats = {"skillRating", "gamesPlayed", "currentStreak"}

\* C5: when the stored record cannot be parsed at session start, playerStats
\* becomes null and nothing is thrown; the stored text is never used as stats;
\* a game can still be started, and handleStartGame then creates the stats
\* with createDefaultStats(initialElo).
C5_UnparseableStatsDiscarded ==
  /\ [](playerStats = Null \/ IsStats(playerStats))
  /\ [](lastEvent.type = "mount" /\ playerStats = Null
          => /\ ~crashed
             /\ \A color \in {"w", "b"}, initialElo \in InitialElos :
                  ENABLED handleStartGame(color, initialElo))
  /\ [][(Mount /\ storage # NoItem /\ JSONparse(storage).threw)
          => playerStats' = Null /\ ~crashed']_vars
  /\ [][\A color \in {"w", "b"}, initialElo \in InitialElos :
          (handleStartGame(color, initialElo) /\ playerStats = Null)
            => playerStats' = createDefaultStats(initialElo) /\ gameStarted']_vars

\* C5 witness: the session has started on an unparseable record
C5_Witness ==
  /\ lastEvent.type = "mount"
  /\ storage = Garbage
  /\ playerStats = Null

\* C6: handleUndo and handleRedo never change gameHistory; undo moves
\* historyIndex to max(0, i-2) and does nothing at index 0, redo moves it to
\* min(len-1, i+2) and does nothing at the last index; each sets gameState to
\* the entry of gameHistory at the new index.
C6_UndoRedoMoveTheIndex ==
  [][/\ handleUndo =>
          /\ gameHistory' = gameHistory
          /\ IF historyIndex > 0
             THEN /\ historyIndex' = Max(0, historyIndex - 2)
                  /\ historyIndex' \in 0..(Len(gameHistory) - 1)
                  /\ gameState' = gameHistory[historyIndex' + 1]
             ELSE UNCHANGED <<historyIndex, gameState>>
     /\ handleRedo =>
          /\ gameHistory' = gameHistory
          /\ IF historyIndex < Len(gameHistory) - 1
             THEN /\ historyIndex' = Min(Len(gameHistory) - 1, historyIndex + 2)
                  /\ historyIndex' \in 0..(Len(gameHistory) - 1)
                  /\ gameState' = gameHistory[historyIndex' + 1]
             ELSE UNCHANGED <<historyIndex, gameState>>]_vars

\* C7: handleStartGame leaves the initial position as gameState and as the one
\* entry of gameHistory, index 0, no notations, no evaluations, no commentary,
\* and keeps a playerStats record that exists; afterwards no result of a
\* makeAIMove call or a commentary request of an earlier game is written to
\* the state.
C7_NewGameDiscardsTheOld ==
  /\ [](lastEvent.type = "start"
          => /\ gameState = createInitialState(gameNo)
             /\ gameHistory = <<createInitialState(gameNo)>>
             /\ historyIndex = 0
             /\ moveNotations = << >>
             /\ gameEvaluations = << >>
             /\ currentEvaluation = Null
             /\ aiAnalysis = EmptyText)
  /\ [][\A color \in {"w", "b"}, initialElo \in InitialElos :
          (handleStartGame(color, initialElo) /\ playerStats # Null)
            => playerStats' = playerStats]_vars
  /\ [][\A i \in 1..MaxGames, aiMove \in AIMoves :
          (makeAIMove(i, aiMove) /\ aiJobs[i].gameState.game # gameNo)
            => UNCHANGED boardVars]_vars
  /\ [][\A i \in 1..MaxRequests, failure \in Failures :
          (requestAIAnalysis(i, failure) /\ analysisRequests[i].game # gameNo)
            => UNCHANGED aiAnalysis]_vars

\* a makeAIMove call has started in the step: aiJobs has a new last entry
AICallStarts == Len(aiJobs') >= Len(aiJobs) /\ aiJobs' # aiJobs

\* C17: getAIMoveAsync is only invoked on a position with none of
\* isCheckmate, isStalemate, isDraw set, whose side to move is not the
\* player's colour, in a started game with stats present.
C17_SelectorOnLivePositionOnly ==
  /\ [](\A i \in DOMAIN aiJobs :
          /\ ~isCheckmate(aiJobs[i].gameState)
          /\ ~isStalemate(aiJobs[i].gameState)
          /\ ~isDraw(aiJobs[i].gameState))
  /\ [][AICallStarts =>
          LET job == aiJobs'[Len(aiJobs')]
          IN /\ job.gameState = gameState'
             /\ ~isCheckmate(job.gameState) /\ ~isStalemate(job.gameState)
             /\ ~isDraw(job.gameState)
             /\ Turn(job.gameState) # playerColor'
             /\ gameStarted'
             /\ playerStats' # Null]_vars

\* C17 witness: a call is pending for the position the player's move left
C17_Witness ==
  /\ lastEvent = [type |-> "click", moved |-> TRUE]
  /\ Len(aiJobs) = 1
  /\ aiJobs[1].gameState = gameState
  /\ Turn(gameState) # playerColor

\* the clicks of the claim: no legal move comes of them
ClickWithoutMove(square) ==
  \/ ~gameStarted
  \/ playerStats = Null
  \/ Turn(gameState) # playerColor
  \/ isThinking
  \/ isCheckmate(gameState) \/ isStalemate(gameState) \/ isDraw(gameState)
  \/ square \notin validMoves
  \/ makeMove(gameState, selectedSquare, square) = Null

\* C18: a click that gives no legal move changes none of gameState,
\* gameHistory, historyIndex, moveNotations, gameEvaluations and playerStats.
C18_ClickWithoutMoveKeepsPosition ==
  [][\A square \in Squares :
       (handleSquareClick(square) /\ ClickWithoutMove(square))
         => UNCHANGED <<gameState, gameHistory, historyIndex, moveNotations,
                        gameEvaluations, playerStats>>]_vars

\* C18 witness: a click on a square that is no valid destination has cleared
\* the selection in a game that has moves
C18_Witness ==
  /\ lastEvent = [type |-> "click", moved |-> FALSE]
  /\ selectedSquare = NoSquare
  /\ historyIndex > 0
  /\ Turn(gameState) = playerColor

\* C20: 0 <= historyIndex <= len(gameHistory) - 1 and gameState is the entry
\* gameHistory[historyIndex], in every reachable state.
C20_StateIsTheIndexedEntry ==
  /\ historyIndex \in 0..(Len(gameHistory) - 1)
  /\ gameState = gameHistory[historyIndex + 1]

\* the notations of the moves that lead to a position
NotationsOf(state) ==
  [i \in 1..Len(state.moves) |->
     moveToAlgebraic([state EXCEPT !.moves = SubSeq(@, 1, i - 1)], state.moves[i])]

\* C21: moveNotations has exactly historyIndex entries, one per move applied
\* up to the position shown, in every reachable state, also after undo
\* followed by redo.
C21_NotationsMatchThePosition ==
  ~crashed =>
    /\ Len(moveNotations) = historyIndex
    /\ moveNotations = NotationsOf(gameState)

\* C22: whenever aiAnalysis is non-empty it is the commentary for the move in
\* currentEvaluation; a response to a request of an earlier move or an earlier
\* game is never stored.
C22_AnalysisIsForTheCurrentMove ==
  (aiAnalysis # EmptyText /\ aiAnalysis # Undefined) =>
    /\ currentEvaluation # Null
    /\ aiAnalysis.evaluation = currentEvaluation

\* C23: handleUndo immediately followed by handleRedo restores the
\* historyIndex and the gameState that held before the undo.
C23_RedoRestoresWhatUndoLeft ==
  (lastEvent.type = "redo" /\ lastEvent.after.type = "undo") =>
    /\ historyIndex = lastEvent.after.historyIndex
    /\ gameState = lastEvent.after.gameState

(***************************************************************************)
(* SpecLive: the component with the scheduling of the callbacks.  The      *)
(* promise of a pending makeAIMove call is settled in the end:             *)
(* getAIMoveAsync returns a legal move and the continuation runs.  The     *)
(* player's moves are all graded excellent, so that no commentary is       *)
(* requested: the requests touch none of the state the makeAIMove effect   *)
(* reads or writes.                                                        *)
(***************************************************************************)
AICompletes == \E i \in 1..MaxGames, m \in Moves : makeAIMove(i, [from |-> "p", to |-> m])

LiveNext ==
  \/ Mount
  \/ \E color \in {"w", "b"}, initialElo \in InitialElos : handleStartGame(color, initialElo)
  \/ handleUndo
  \/ handleRedo
  \/ \E square \in Squares : ClickSelects(square)
  \/ \E square \in Squares : ClickMoves(square, "excellent")
  \/ AICompletes
  \/ GameEndEffect

SpecLive == Init /\ [][LiveNext]_vars /\ WF_vars(AICompletes)

\* a started game in a position that is not final, the AI to move
AIToMove ==
  /\ ~crashed
  /\ gameStarted /\ playerStats # Null
  /\ ~IsTerminal(gameState)
  /\ Turn(gameState) # playerColor

\* no further game can be counted: the model takes no step that ends one
GamesBoundReached == GamesPlayed(playerStats) >= MaxGamesPlayed

\* C24: whenever a started game is in a position that is not final with the
\* AI to move, eventually a makeAIMove call has finished (its move applied or
\* the position replaced) with isThinking and aiMoveInProgress both cleared
\* (as long as games can still be counted).
C24_AIMoveComesInTheEnd ==
  AIToMove ~> ((~AIToMove /\ ~isThinking /\ ~aiMoveInProgress) \/ GamesBoundReached)

\* after a new game the last call has finished: its move is applied, the
\* player is to move, no call is outstanding and both flags are cleared
C24_Witness ==
  /\ lastEvent.type = "aiMove"
  /\ gameNo = MaxGames /\ gameStarted /\ ~crashed
  /\ Len(aiJobs) = 0 /\ Len(gameState.moves) >= 1
  /\ ~IsTerminal(gameState)
  /\ ~AIToMove /\ ~isThinking /\ ~aiMoveInProgress
  /\ ~GamesBoundReached

(***************************************************************************)
(* SpecMid: the component from the middle of a game.  The player, as       *)
(* white, has MidEvals times made a move, seen the reply and taken both    *)
(* back with handleUndo, which keeps gameEvaluations: the game is at its   *)
(* first position again with MidEvals grades on the list.                  *)
(***************************************************************************)
\* grades already on the list
MidEvals == 4

\* the grade lists of the moves taken back: k times excellent, then blunders
MidLists ==
  {[i \in 1..MidEvals |-> Evaluation(IF i <= k THEN "excellent" ELSE "blunder")] :
     k \in 0..MidEvals}

MidInit ==
  \E evals \in MidLists, initialElo \in InitialElos :
    LET stats == createDefaultStats(initialElo)
        s0 == createInitialState(1)
        s1 == makeMove(s0, "p", "a")
        s2 == makeMove(s1, "p", "a")
        last == evals[MidEvals]
    IN /\ storage = JSONstringify(stats)
       /\ mounted = TRUE
       /\ crashed = FALSE
       /\ gameNo = 1
       /\ graded = 0
       /\ gameState = s0
       /\ gameHistory = <<s0, s1, s2>>
       /\ historyIndex = 0
       /\ selectedSquare = NoSquare
       /\ validMoves = {}
       /\ playerStats = stats
       /\ isThinking = FALSE
       /\ moveNotations = << >>
       /\ currentEvaluation = last
       /\ gameEvaluations = evals
       /\ aiAnalysis = IF NoCommentary(last) THEN EmptyText ELSE ModelText(last)
       /\ isAnalyzing = FALSE
       /\ gameStarted = TRUE
       /\ playerColor = "w"
       /\ currentDifficulty =
            getAdaptiveDifficulty(eloToDifficulty(stats.skillRating), stats,
                                  SubSeq(evals, 1, MidEvals - 1))
       /\ aiMoveInProgress = FALSE
       /\ aiJobs = << >>
       /\ analysisRequests = << >>
       /\ endEffectDue = FALSE
       /\ endUpdates = 0
       /\ lastEvent = [type |-> "undo", historyIndex |-> 2, gameState |-> s2]
       /\ fnCall = NoCall
       /\ fnRet = NotReturned

MidNext ==
  \/ \E color \in {"w", "b"}, initialElo \in InitialElos : handleStartGame(color, initialElo)
  \/ handleUndo
  \/ handleRedo
  \/ \E square \in Squares : handleSquareClick(square)
  \/ \E i \in 1..MaxGames, m \in Moves : makeAIMove(i, [from |-> "p", to |-> m])
  \/ \E i \in 1..MaxRequests, failure \in Failures : requestAIAnalysis(i, failure)
  \/ GameEndEffect

SpecMid == MidInit /\ [][MidNext]_vars

\* C19: the difficulty handleSquareClick sets with a move is
\* getAdaptiveDifficulty(eloToDifficulty(skillRating), stats, evaluations) on
\* the stats and the evaluation list that include the grade of that move.
C19_DifficultyFromTheNewGrade ==
  [][\A square \in Squares, type \in PlayedGrades :
       ClickMoves(square, type)
         => /\ gameEvaluations' = Append(gameEvaluations, Evaluation(type))
            /\ currentDifficulty' =
                 getAdaptiveDifficulty(eloToDifficulty(playerStats'.skillRating),
                                       playerStats', gameEvaluations')]_vars

(***************************************************************************)
(* SpecFn: the pure functions applied to inputs drawn from bounded sets    *)
(***************************************************************************)
\* the six tiers, best first
GradeOrder == <<"brilliant", "excellent", "good", "inaccuracy", "mistake", "blunder">>

\* The evaluation lists of length n, one per multiset of grades (each listed
\* best grade first): the library only sums and counts over a list.
GradeRank(type) == CHOOSE i \in 1..Len(GradeOrder) : GradeOrder[i] = type

RECURSIVE ListsOfLen(_)
ListsOfLen(n) ==
  IF n = 0 THEN {<< >>}
  ELSE UNION {{Append(q, Evaluation(GradeOrder[i])) :
                 i \in {j \in 1..Len(GradeOrder) :
                          n = 1 \/ GradeRank(q[n - 1].type) <= j}} :
              q \in ListsOfLen(n - 1)}

EvalLists == UNION {ListsOfLen(n) : n \in 0..MaxEvals}
BaseInputs == (1 - BaseSlack)..(10 + BaseSlack)
StreakInputs == (0 - MaxStreak)..MaxStreak
\* ratings around every breakpoint of eloToDifficulty, and far outside
EloInputs == {300 + 200 * L + d : L \in 0..10, d \in {-1, 0, 1, 100}} \cup {-50, 0, 2200, 3000}

\* a PlayerStats, of which the library reads currentStreak only
StatsOfStreak(streak) ==
  [skillRating |-> 1000, gamesPlayed |-> 0, currentStreak |-> streak]

\* centipawn losses on, next to and between the thresholds, and far outside
LossInputs ==
  {t + d : t \in {-200, -50, 0, 50, 150, 300}, d \in {-1, 0, 1}} \cup {-1000, -100, 100, 1000}
\* ratings on and next to the bounds of the K bands, and far from them
RatingInputs == {0, 400, 999, 1000, 1001, 1399, 1400, 1401, 1999, 2000, 2001, 2400}
\* levels in and next to the table
LevelInputs == -1..12
\* bonuses handed to getAIOpponentElo
BonusInputs == {-100, 0, 50}

\* the calls tried: a function of the library and its arguments
FnCalls ==
  {[fn |-> "eloToDifficulty", playerElo |-> e] : e \in EloInputs}
  \cup {[fn |-> "getMoveGrade", centipawnLoss |-> c] : c \in LossInputs}
  \cup {[fn |-> "calculateAccuracy", evaluations |-> l] : l \in EvalLists}
  \cup {[fn |-> "calculateEloChange", playerElo |-> e, opponentElo |-> o, result |-> r] :
          e \in RatingInputs, o \in RatingInputs, r \in {"win", "loss", "draw"}}
  \cup {[fn |-> "getAIOpponentElo", difficulty |-> d, nArgs |-> 2, adaptiveBonus |-> b] :
          d \in LevelInputs, b \in BonusInputs}
  \cup {[fn |-> "getAIOpponentElo", difficulty |-> d, nArgs |-> 1] : d \in LevelInputs}
  \cup {[fn |-> "getAdaptiveDifficulty", baseDifficulty |-> b,
         stats |-> StatsOfStreak(s), gameEvaluations |-> l] :
          b \in BaseInputs, s \in StreakInputs, l \in EvalLists}

Returned(value) == [returned |-> TRUE, value |-> value]

\* a call is drawn and has not returned yet
FnInit ==
  /\ fnCall \in FnCalls
  /\ fnRet = NotReturned
  /\ GameInit
  /\ storage = NoItem

CallEloToDifficulty ==
  /\ ~fnRet.returned
  /\ fnCall.fn = "eloToDifficulty"
  /\ fnRet' = Returned(eloToDifficulty(fnCall.playerElo))
  /\ UNCHANGED <<fnCall, gameVars>>

CallGetAdaptiveDifficulty ==
  /\ ~fnRet.returned
  /\ fnCall.fn = "getAdaptiveDifficulty"
  /\ fnRet' = Returned(getAdaptiveDifficulty(fnCall.baseDifficulty, fnCall.stats,
                                             fnCall.gameEvaluations))
  /\ UNCHANGED <<fnCall, gameVars>>

CallGetMoveGrade ==
  /\ ~fnRet.returned
  /\ fnCall.fn = "getMoveGrade"
  /\ fnRet' = Returned(getMoveGrade(fnCall.centipawnLoss))
  /\ UNCHANGED <<fnCall, gameVars>>

CallCalculateAccuracy ==
  /\ ~fnRet.returned
  /\ fnCall.fn = "calculateAccuracy"
  /\ fnRet' = Returned(calculateAccuracy(fnCall.evaluations))
  /\ UNCHANGED <<fnCall, gameVars>>

CallCalculateEloChange ==
  /\ ~fnRet.returned
  /\ fnCall.fn = "calculateEloChange"
  /\ fnRet' = Returned(calculateEloChange(fnCall.playerElo, fnCall.opponentElo, fnCall.result))
  /\ UNCHANGED <<fnCall, gameVars>>

\* adaptiveBonus = 0 is the default of the parameter
CallGetAIOpponentElo ==
  /\ ~fnRet.returned
  /\ fnCall.fn = "getAIOpponentElo"
  /\ fnRet' = Returned(getAIOpponentElo(fnCall.difficulty,
                                        IF fnCall.nArgs = 2 THEN fnCall.adaptiveBonus ELSE 0))
  /\ UNCHANGED <<fnCall, gameVars>>

FnNext ==
  \/ CallEloToDifficulty
  \/ CallGetAdaptiveDifficulty
  \/ CallGetMoveGrade
  \/ CallCalculateAccuracy
  \/ CallCalculateEloChange
  \/ CallGetAIOpponentElo

SpecFn == FnInit /\ [][FnNext]_vars

(***************************************************************************)
(* Claims about the library (checked under SpecFn)                         *)
(***************************************************************************)
Clamp(x, lo, hi) == Max(lo, Min(hi, x))

\* C8: getAdaptiveDifficulty returns a value in 1..10 for every base
\* difficulty (also outside 1..10), every streak and every evaluation list.
C8_AdaptiveDifficultyInRange ==
  (fnCall.fn = "getAdaptiveDifficulty" /\ fnRet.returned) => fnRet.value \in 1..10

\* C8 witness: base 10 with the accuracy and the streak trigger both positive
C8_Witness ==
  /\ fnCall.fn = "getAdaptiveDifficulty" /\ fnRet.returned
  /\ fnCall.baseDifficulty = 10
  /\ fnCall.stats.currentStreak >= 3
  /\ Len(fnCall.gameEvaluations) >= 5
  /\ calculateAccuracy(fnCall.gameEvaluations) > 85
  /\ fnRet.value = 10

\* the three terms of the claim, each on its own
AccuracyTerm(evals) ==
  IF calculateAccuracy(evals) > 85 /\ Len(evals) >= 5 THEN 1
  ELSE IF calculateAccuracy(evals) < 50 /\ Len(evals) >= 5 THEN -1
  ELSE 0
StreakTerm(stats) ==
  IF stats.currentStreak >= 3 THEN 1 ELSE IF stats.currentStreak <= -3 THEN -1 ELSE 0
BlunderTerm(evals) ==
  IF Len(evals) >= 5 /\ 100 * BlunderCount(evals) > 20 * Len(evals) THEN -1 ELSE 0

\* C9: getAdaptiveDifficulty(base, stats, evals) = clamp(base + a + s + b, 1, 10)
\* with the accuracy term a, the streak term s and the blunder term b each
\* decided on its own; with fewer than 5 evaluations only s can be non-zero.
C9_AdaptiveDifficultyIsTheSum ==
  (fnCall.fn = "getAdaptiveDifficulty" /\ fnRet.returned) =>
    LET base == fnCall.baseDifficulty
        evals == fnCall.gameEvaluations
    IN /\ fnRet.value = Clamp(base + AccuracyTerm(evals) + StreakTerm(fnCall.stats)
                                + BlunderTerm(evals), 1, 10)
       /\ Len(evals) < 5 => fnRet.value = Clamp(base + StreakTerm(fnCall.stats), 1, 10)

\* C9 witness: all three terms fire in one call
C9_Witness ==
  /\ fnCall.fn = "getAdaptiveDifficulty" /\ fnRet.returned
  /\ fnCall.baseDifficulty = 5
  /\ AccuracyTerm(fnCall.gameEvaluations) = -1
  /\ StreakTerm(fnCall.stats) = -1
  /\ BlunderTerm(fnCall.gameEvaluations) = -1
  /\ fnRet.value = 2

\* the level the breakpoints 500, 700, .., 2100 give a rating
LevelOf(rating) ==
  IF rating > 2100 THEN 10
  ELSE CHOOSE L \in 1..9 : rating <= 300 + 200 * L /\ (L > 1 => rating > 100 + 200 * L)

\* C10: eloToDifficulty returns level L in 1..9 exactly for the ratings above
\* the previous breakpoint and up to 300 + 200 * L, and 10 above 2100; it never
\* decreases as the rating grows; 500 gives 1, 1000 gives 4, 2200 gives 10.
C10_EloToDifficultyBreakpoints ==
  (fnCall.fn = "eloToDifficulty" /\ fnRet.returned) =>
    /\ fnRet.value \in 1..10
    /\ fnRet.value = LevelOf(fnCall.playerElo)
    /\ fnCall.playerElo = 500 => fnRet.value = 1
    /\ fnCall.playerElo = 1000 => fnRet.value = 4
    /\ fnCall.playerElo = 2200 => fnRet.value = 10
    /\ \A lower \in EloInputs :
         lower <= fnCall.playerElo => eloToDifficulty(lower) <= fnRet.value

\* C10 witness: a rating on a breakpoint has been mapped
C10_Witness ==
  /\ fnCall.fn = "eloToDifficulty" /\ fnRet.returned
  /\ fnCall.playerElo = 1100
  /\ fnRet.value = 4

\* the tier of a grade: 1 is brilliant, 6 is blunder
TierOf(grade) == GradeRank(grade)

\* the grade the thresholds of the claim give a loss
GradeByThresholds(loss) ==
  IF loss <= -200 THEN "brilliant"
  ELSE IF loss <= -50 THEN "excellent"
  ELSE IF loss <= 0 THEN "good"
  ELSE IF loss <= 50 THEN "inaccuracy"
  ELSE IF loss <= 150 THEN "mistake"
  ELSE "blunder"

\* C11: getMoveGrade returns brilliant for a loss <= -200, else excellent for
\* <= -50, else good for <= 0, else inaccuracy for <= 50, else mistake for
\* <= 150, otherwise blunder; a loss of exactly 0 is graded good.
C11_GradeByThresholds ==
  (fnCall.fn = "getMoveGrade" /\ fnRet.returned) =>
    /\ fnRet.value = GradeByThresholds(fnCall.centipawnLoss)
    /\ fnCall.centipawnLoss = 0 => fnRet.value = "good"

\* C11 witness: a loss of exactly 0 has been graded
C11_Witness ==
  /\ fnCall.fn = "getMoveGrade" /\ fnRet.returned
  /\ fnCall.centipawnLoss = 0
  /\ fnRet.value = "good"

\* C12: for losses loss1 <= loss2, getMoveGrade(loss1) is never a worse tier
\* than getMoveGrade(loss2).
C12_GradeMonotone ==
  (fnCall.fn = "getMoveGrade" /\ fnRet.returned) =>
    \A loss1 \in LossInputs :
      loss1 <= fnCall.centipawnLoss => TierOf(getMoveGrade(loss1)) <= TierOf(fnRet.value)

\* C12 witness: a loss graded worse than a smaller loss of the inputs
C12_Witness ==
  /\ fnCall.fn = "getMoveGrade" /\ fnRet.returned
  /\ fnCall.centipawnLoss = 151
  /\ fnRet.value = "blunder"
  /\ \E loss1 \in LossInputs : loss1 < 151 /\ getMoveGrade(loss1) = "mistake"

\* the per-grade score of the claim
ScoreOf(grade) ==
  CASE grade = "brilliant" -> 100 [] grade = "excellent" -> 95 [] grade = "good" -> 85
    [] grade = "inaccuracy" -> 65 [] grade = "mistake" -> 40 [] grade = "blunder" -> 15

RECURSIVE SumOfScores(_)
SumOfScores(evals) ==
  IF evals = << >> THEN 0 ELSE ScoreOf(evals[1].type) + SumOfScores(Tail(evals))

\* C13: calculateAccuracy returns 100 for the empty list and otherwise the
\* average of the per-grade scores rounded to the nearest integer; a list of
\* blunders only gives 15, and every result lies in 15..100.
C13_AccuracyIsTheAverage ==
  (fnCall.fn = "calculateAccuracy" /\ fnRet.returned) =>
    LET evals == fnCall.evaluations
        n == Len(evals)
    IN /\ n = 0 => fnRet.value = 100
       /\ n > 0 => /\ 2 * n * fnRet.value - n <= 2 * SumOfScores(evals)
                   /\ 2 * SumOfScores(evals) < 2 * n * fnRet.value + n
       /\ (n > 0 /\ \A i \in 1..n : evals[i].type = "blunder") => fnRet.value = 15
       /\ fnRet.value \in 15..100

\* C13 witness: an average that is no integer has been rounded up
C13_Witness ==
  /\ fnCall.fn = "calculateAccuracy" /\ fnRet.returned
  /\ fnCall.evaluations = <<Evaluation("brilliant"), Evaluation("excellent")>>
  /\ fnRet.value = 98

IsEloCall(playerElo, opponentElo, result) ==
  /\ fnCall.fn = "calculateEloChange" /\ fnRet.returned
  /\ fnCall.playerElo = playerElo
  /\ fnCall.opponentElo = opponentElo
  /\ fnCall.result = result

\* C14 as stated: calculateEloChange(1000, 1000, "win") = 20.
C14_EloChangeIs20 == IsEloCall(1000, 1000, "win") => fnRet.value = 20

\* C14 amended: calculateEloChange(1000, 1000, "win") = 16: a rating of 1000
\* is in the band 1000..1399 with K = 32, the expected score is 0.5.
C14_EloChangeIs16 == IsEloCall(1000, 1000, "win") => fnRet.value = 16

\* C14 witness: the call has returned
C14_Witness == IsEloCall(1000, 1000, "win") /\ fnRet.value = 16

\* the K of the claim
KOfClaim(playerElo) ==
  IF playerElo < 1000 THEN 40
  ELSE IF 1000 <= playerElo /\ playerElo < 1400 THEN 32
  ELSE IF 1400 <= playerElo /\ playerElo < 2000 THEN 24
  ELSE 16

\* C15: K is 40 below 1000, 32 from 1000 below 1400, 24 from 1400 below 2000,
\* else 16; for equal ratings the delta is K/2 for a win, 0 for a draw and
\* -K/2 for a loss.
C15_KByRating ==
  (fnCall.fn = "calculateEloChange" /\ fnRet.returned) =>
    /\ KFactor(fnCall.playerElo) = KOfClaim(fnCall.playerElo)
    /\ fnCall.opponentElo = fnCall.playerElo =>
         fnRet.value = CASE fnCall.result = "win" -> KOfClaim(fnCall.playerElo) \div 2
                         [] fnCall.result = "draw" -> 0
                         [] fnCall.result = "loss" -> 0 - (KOfClaim(fnCall.playerElo) \div 2)

\* C15 witness: a loss between equal ratings on a band's lower bound
C15_Witness ==
  /\ IsEloCall(1400, 1400, "loss")
  /\ fnRet.value = -12

\* C16: getAIOpponentElo(level, bonus) is the table's elo of the level plus
\* bonus for the levels 1..10 and 1000 + bonus for every other level; bonus
\* is 0 when it is not given.
C16_OpponentElo ==
  (fnCall.fn = "getAIOpponentElo" /\ fnRet.returned) =>
    LET bonus == IF fnCall.nArgs = 2 THEN fnCall.adaptiveBonus ELSE 0
    IN IF fnCall.difficulty \in 1..10
       THEN fnRet.value = 200 + 200 * fnCall.difficulty + bonus
       ELSE fnRet.value = 1000 + bonus

\* C16 witness: a level absent from the table, no bonus given
C16_Witness ==
  /\ fnCall.fn = "getAIOpponentElo" /\ fnRet.returned
  /\ fnCall.difficulty = 11
  /\ fnCall.nArgs = 1
  /\ fnRet.value = 1000

====
